---- MODULE Spec2Model ----
(***************************************************************************)
(* Lumina Waters Finance (src/new.py): a Streamlit script over a Google    *)
(* spreadsheet.  The model keeps the worksheets as sequences of text rows  *)
(* (the header row is left out; the headers are taken to be the ones the   *)
(* column finder looks for: "Order ID", "Total Amount", "Amount Paid",     *)
(* "Amount"), the load_data cache shared by all sessions, the frames the    *)
(* latest script run loaded, and each browser session's login flags and    *)
(* form handler position.                                                  *)
(* Money is counted in whole units.                                        *)
(***************************************************************************)
EXTENDS Integers, Sequences, FiniteSets, TLC

\* Bounds of the model: rows the spreadsheet may hold, all worksheets together;
\* length of an identifier cell and of an identifier column where the column
\* holds arbitrary text.
MaxRows == 4
MaxCellLen == 2
MaxCol == 2

Sessions == {"s1", "s2"}
Tables == {"orders", "transactions", "expenses", "income"}

\* Inputs of the forms.
OrderForms ==
  { [items |-> "jar", qty |-> 1, price |-> 2, pay_status |-> "Unpaid", order_status |-> "Pending"],
    [items |-> "jar", qty |-> 2, price |-> 2, pay_status |-> "Partial", order_status |-> "Cancelled"],
    [items |-> "", qty |-> 1, price |-> 0, pay_status |-> "Paid", order_status |-> "Delivered"] }
Amounts == {0, 2}
Passcodes == {"secret", "wrong"}
\* Outcomes of the worksheet reads of one script run: ok[t] is whether the
\* read of table t went through.  The table reads are taken to go through;
\* the reads and writes that fail are the identifier-column read of
\* get_next_id and append_row.
LoadOutcomes == {[t \in Tables |-> TRUE]}

VARIABLES
  sheet,          \* sheet[t]: the rows of worksheet t, every cell as stored
  cache,          \* the st.cache_data entries of load_data, or NoCache
  authenticated,  \* st.session_state.authenticated, per session
  user_role,      \* st.session_state.user_role, per session
  pc,             \* per session: position of its form handler
  page,           \* the frames the latest script run loaded and rendered
  pend,           \* per session: the row its handler is about to append
  msg             \* what the latest script run reported: none, success, or an
                  \* error: invalid_amount ("Please enter a valid payment
                  \* amount"), append_failed ("Failed to add ..."), error (other)

vars == <<sheet, cache, page, authenticated, user_role, pc, pend, msg>>

-----------------------------------------------------------------------------
(* Text cells.  A cell is a sequence of characters; "sup2" stands for the   *)
(* character U+00B2, for which str.isdigit() is True and int() raises.      *)

Digits == <<"0", "1", "2", "3", "4", "5", "6", "7", "8", "9">>
IsDecimal(c) == \E d \in 1..10 : Digits[d] = c
DigitValue(c) == (CHOOSE d \in 1..10 : Digits[d] = c) - 1
IsDigitChar(c) == IsDecimal(c) \/ c = "sup2"
IsSpace(c) == c = " "

RECURSIVE str(_)
str(n) ==
  IF n < 0 THEN <<"-">> \o str(-n)
  ELSE IF n < 10 THEN <<Digits[n + 1]>>
  ELSE str(n \div 10) \o <<Digits[(n % 10) + 1]>>

RECURSIVE lstrip(_)
lstrip(x) == IF Len(x) > 0 /\ IsSpace(x[1]) THEN lstrip(Tail(x)) ELSE x
RECURSIVE rstrip(_)
rstrip(x) ==
  IF Len(x) > 0 /\ IsSpace(x[Len(x)]) THEN rstrip(SubSeq(x, 1, Len(x) - 1)) ELSE x
strip(x) == rstrip(lstrip(x))

isdigit(x) == Len(x) > 0 /\ \A i \in 1..Len(x) : IsDigitChar(x[i])

RECURSIVE DecimalValue(_)
DecimalValue(x) ==
  IF Len(x) = 0 THEN 0
  ELSE 10 * DecimalValue(SubSeq(x, 1, Len(x) - 1)) + DigitValue(x[Len(x)])
AllDecimal(x) == Len(x) > 0 /\ \A i \in 1..Len(x) : IsDecimal(x[i])

\* int(x) of a text: whether it raises ValueError, and its value when it does not.
IsSigned(y) == Len(y) > 1 /\ y[1] = "-" /\ AllDecimal(Tail(y))
int_raises(x) == ~AllDecimal(strip(x)) /\ ~IsSigned(strip(x))
int(x) ==
  LET y == strip(x)
  IN  IF IsSigned(y) THEN 0 - DecimalValue(Tail(y)) ELSE DecimalValue(y)

\* pd.to_numeric(text without ',' and the currency sign, errors='coerce').fillna(0)
to_numeric(x) ==
  LET y == SelectSeq(x, LAMBDA c : c \notin {",", "rupee"})
  IN  IF int_raises(y) THEN 0 ELSE int(y)

Max(S) == CHOOSE m \in S : \A k \in S : k <= m
Range(f) == {f[i] : i \in DOMAIN f}

RECURSIVE SumCol(_, _)
SumCol(rows, col) ==
  IF Len(rows) = 0 THEN 0 ELSE rows[1][col] + SumCol(Tail(rows), col)

-----------------------------------------------------------------------------
(* Utility functions                                                       *)

EmptyFrames == [t \in Tables |-> <<>>]
NoCache == [valid |-> FALSE, frames |-> EmptyFrames]
NoRow == [tab |-> "none"]

NumericCols(t) ==
  IF t = "orders" THEN {"total"}
  ELSE IF t = "transactions" THEN {"amount", "remaining"}
  ELSE {"amount"}

\* One row of the frame: the columns whose header holds amount/price/quantity/
\* remaining/paid become numbers, every other column stays text.
ParseRow(t, r) ==
  [c \in DOMAIN r |-> IF c \in NumericCols(t) THEN to_numeric(r[c]) ELSE r[c]]

\* load_data(sheet_name) on a cache miss, reading worksheet rows ws; ok is
\* whether the read went through.  A failed read yields the empty frame.
load_data(ws, t, ok) ==
  IF ~ok \/ Len(ws[t]) = 0 THEN <<>>
  ELSE [i \in 1..Len(ws[t]) |-> ParseRow(t, ws[t][i])]

\* get_next_id(sheet_name): column is the identifier column below the header,
\* read_ok whether col_values went through.
get_next_id(column, read_ok) ==
  IF ~read_ok THEN 1
  ELSE LET kept == SelectSeq(column, LAMBDA x : isdigit(strip(x)))
           nums == [i \in 1..Len(kept) |-> int(kept[i])]
       IN  IF \E i \in 1..Len(kept) : int_raises(kept[i]) THEN 1
           ELSE IF Len(nums) > 0 THEN Max(Range(nums)) + 1
           ELSE 1

IdColumn(ws, t) == [i \in 1..Len(ws[t]) |-> ws[t][i].id]

\* The row append_row_safe writes: every value as text.
CleanRow(t, r) ==
  [c \in DOMAIN r |-> IF c \in NumericCols(t) \cup {"id"} THEN str(r[c]) ELSE r[c]]

-----------------------------------------------------------------------------
(* Dashboard and Reports, computed by every script run from its frames      *)

\* (a sum that leaves the Cancelled orders out)
ColumnSumSkipCancelled(df, col) ==
  SumCol(SelectSeq(df, LAMBDA r : ~("order_status" \in DOMAIN r /\ r["order_status"] = "Cancelled")), col)

\* df[col].sum() if col in df.columns else 0: the empty frame has no columns
ColumnSum(df, col) == IF Len(df) = 0 THEN 0 ELSE SumCol(df, col)

NetBalance(paid, extra_income, total_expenses) == paid + extra_income - total_expenses

DashboardMetrics(fr) ==
  LET total_sales == ColumnSum(fr["orders"], "total")
      paid == ColumnSum(fr["transactions"], "amount")
      extra_income == ColumnSum(fr["income"], "amount")
      total_expenses == ColumnSum(fr["expenses"], "amount")
  IN  [total_sales |-> total_sales, paid |-> paid, extra_income |-> extra_income,
       total_expenses |-> total_expenses,
       net_balance |-> NetBalance(paid, extra_income, total_expenses)]

RowsOf(rows, col, key) == SelectSeq(rows, LAMBDA r : r[col] = key)

\* transactions.groupby(order id)[amount paid].sum()
PaidByOrder(transactions) ==
  [k \in {transactions[j].oid : j \in 1..Len(transactions)} |->
     SumCol(RowsOf(transactions, "oid", k), "amount")]

\* (a balance clamped at zero)
UnpaidClamped(total, total_paid) == IF total_paid > total THEN 0 ELSE total - total_paid

\* orders_merged["Unpaid"]
Unpaid(total, total_paid) == total - total_paid

\* orders.merge(paid_by_order, how="left"), TotalPaid.fillna(0), Unpaid
OrdersMerged(orders, transactions) ==
  LET paid_by_order == PaidByOrder(transactions)
  IN  [i \in 1..Len(orders) |->
         LET total_paid == IF orders[i].id \in DOMAIN paid_by_order
                           THEN paid_by_order[orders[i].id] ELSE 0
         IN  [id |-> orders[i].id, total |-> orders[i].total,
              TotalPaid |-> total_paid, Unpaid |-> Unpaid(orders[i].total, total_paid)]]

\* The receivables calculation of the Reports tab
Receivables(orders, transactions) ==
  IF Len(orders) > 0 /\ Len(transactions) > 0
  THEN LET orders_merged == OrdersMerged(orders, transactions)
       IN  [computed |-> TRUE,
            orders_merged |-> orders_merged,
            receivables |-> SelectSeq(orders_merged, LAMBDA r : r.Unpaid > 0),
            rec_total |-> SumCol(orders_merged, "Unpaid")]
  ELSE [computed |-> FALSE, orders_merged |-> <<>>, receivables |-> <<>>, rec_total |-> 0]

-----------------------------------------------------------------------------
Init ==
  /\ sheet = [t \in Tables |-> <<>>]
  /\ cache = NoCache
  /\ authenticated = [s \in Sessions |-> FALSE]
  /\ user_role = [s \in Sessions |-> "viewer"]
  /\ pc = [s \in Sessions |-> "idle"]
  /\ page = EmptyFrames
  /\ pend = [s \in Sessions |-> NoRow]
  /\ msg = "none"

\* The loads at the top of a script run (Dashboard tab): the tables come from
\* the cache when it holds entries younger than ttl=60 seconds, else from the
\* worksheets, and are cached.
LoadAll ==
  \/ /\ cache.valid
     /\ page' = cache.frames
     /\ cache' = cache
  \/ \E ok \in LoadOutcomes :
       LET fr == [t \in Tables |-> load_data(sheet, t, ok[t])]
       IN  /\ page' = fr
           /\ cache' = [valid |-> TRUE, frames |-> fr]

Login(s) ==
  /\ ~authenticated[s]
  /\ \E code \in Passcodes :
       IF code = "secret"
       THEN /\ authenticated' = [authenticated EXCEPT ![s] = TRUE]
            /\ user_role' = [user_role EXCEPT ![s] = "admin"]
            /\ msg' = "none"
            /\ LoadAll
       ELSE /\ msg' = "error"
            /\ UNCHANGED <<authenticated, user_role, page, cache>>
  /\ UNCHANGED <<sheet, pc, pend>>

Refresh(s) ==
  /\ authenticated[s]
  /\ pc[s] = "idle"
  /\ LoadAll
  /\ msg' = "none"
  /\ UNCHANGED <<sheet, authenticated, user_role, pc, pend>>

\* (a Logout that leaves the role as it is)
LogoutKeepingRole(s) ==
  /\ authenticated[s]
  /\ pc[s] = "idle"
  /\ authenticated' = [authenticated EXCEPT ![s] = FALSE]
  /\ user_role' = user_role
  /\ msg' = "none"
  /\ UNCHANGED <<sheet, cache, page, pc, pend>>

Logout(s) ==
  /\ authenticated[s]
  /\ pc[s] = "idle"
  /\ authenticated' = [authenticated EXCEPT ![s] = FALSE]
  /\ user_role' = [user_role EXCEPT ![s] = "viewer"]
  /\ msg' = "none"
  /\ UNCHANGED <<sheet, cache, page, pc, pend>>

\* Rows stored or about to be appended: the forms are offered while there is room.
RowCount ==
  Len(sheet["orders"]) + Len(sheet["transactions"]) + Len(sheet["expenses"])
    + Len(sheet["income"]) + Cardinality({s \in Sessions : pend[s] # NoRow})
HasRoom == RowCount < MaxRows

\* "Save Order": the run loads the tables, checks the form and builds the row.
SubmitOrder(s) ==
  /\ user_role[s] = "admin"
  /\ pc[s] = "idle"
  /\ HasRoom
  /\ LoadAll
  /\ \E f \in OrderForms :
       IF f.items = ""
       THEN /\ msg' = "error"
            /\ UNCHANGED <<pc, pend>>
       ELSE /\ pend' = [pend EXCEPT ![s] =
                         [tab |-> "orders",
                          row |-> [id |-> 0, total |-> f.qty * f.price,
                                   pay_status |-> f.pay_status,
                                   order_status |-> f.order_status]]]
            /\ pc' = [pc EXCEPT ![s] = "alloc"]
            /\ msg' = "none"
  /\ UNCHANGED <<sheet, authenticated, user_role>>

OrderOptions(orders) == {orders[i].id : i \in 1..Len(orders)}

\* (a snapshot that also counts a second payment of the same amount)
RemainingCountsOther(orders, transactions, oid, amount) ==
  LET total == SumCol(RowsOf(orders, "id", oid), "total")
      paid_so_far ==
        IF Len(transactions) > 0 THEN SumCol(RowsOf(transactions, "oid", oid), "amount")
        ELSE 0
  IN  total - (paid_so_far + amount + amount)

\* remaining, as the add_transaction handler computes it from the loaded frames
Remaining(orders, transactions, oid, amount) ==
  LET total == SumCol(RowsOf(orders, "id", oid), "total")
      paid_so_far ==
        IF Len(transactions) > 0 THEN SumCol(RowsOf(transactions, "oid", oid), "amount")
        ELSE 0
  IN  total - (paid_so_far + amount)

\* (a Save Transaction that lets the amount 0 through)
SubmitTransactionAcceptingZero(s) ==
  /\ user_role[s] = "admin"
  /\ pc[s] = "idle"
  /\ HasRoom
  /\ LoadAll
  /\ Len(page'["orders"]) > 0
  /\ \E oid \in OrderOptions(page'["orders"]), amount \in Amounts :
       IF amount < 0
       THEN /\ msg' = "invalid_amount"
            /\ UNCHANGED <<pc, pend>>
       ELSE /\ pend' = [pend EXCEPT ![s] =
                         [tab |-> "transactions",
                          row |-> [id |-> 0, oid |-> oid, amount |-> amount,
                                   remaining |-> Remaining(page'["orders"],
                                                           page'["transactions"],
                                                           oid, amount)]]]
            /\ pc' = [pc EXCEPT ![s] = "alloc"]
            /\ msg' = "none"
  /\ UNCHANGED <<sheet, authenticated, user_role>>

\* "Save Transaction"
SubmitTransaction(s) ==
  /\ user_role[s] = "admin"
  /\ pc[s] = "idle"
  /\ HasRoom
  /\ LoadAll
  /\ Len(page'["orders"]) > 0
  /\ \E oid \in OrderOptions(page'["orders"]), amount \in Amounts :
       IF amount <= 0
       THEN /\ msg' = "invalid_amount"
            /\ UNCHANGED <<pc, pend>>
       ELSE /\ pend' = [pend EXCEPT ![s] =
                         [tab |-> "transactions",
                          row |-> [id |-> 0, oid |-> oid, amount |-> amount,
                                   remaining |-> Remaining(page'["orders"],
                                                           page'["transactions"],
                                                           oid, amount)]]]
            /\ pc' = [pc EXCEPT ![s] = "alloc"]
            /\ msg' = "none"
  /\ UNCHANGED <<sheet, authenticated, user_role>>

\* get_next_id, evaluated while the argument list of append_row_safe is built
AllocateWith(s, read_ok) ==
  /\ pc[s] = "alloc"
  /\ pend' = [pend EXCEPT ![s].row.id =
                get_next_id(IdColumn(sheet, pend[s].tab), read_ok)]
  /\ pc' = [pc EXCEPT ![s] = "append"]
  /\ UNCHANGED <<sheet, cache, page, authenticated, user_role, msg>>

Allocate(s) == \E read_ok \in BOOLEAN : AllocateWith(s, read_ok)

\* (an append that also marks the paid order's rows as Paid)
AppendRowMarkingPaid(s) ==
  /\ pc[s] = "append"
  /\ LET appended == [sheet EXCEPT ![pend[s].tab] =
                        Append(@, CleanRow(pend[s].tab, pend[s].row))]
         ws == IF pend[s].tab = "transactions"
               THEN [appended EXCEPT !["orders"] =
                       [i \in 1..Len(@) |->
                          IF @[i].id = pend[s].row.oid
                          THEN [@[i] EXCEPT !.pay_status = "Paid"] ELSE @[i]]]
               ELSE appended
     IN  /\ sheet' = ws
         /\ \E ok \in LoadOutcomes :
              LET fr == [t \in Tables |-> load_data(ws, t, ok[t])]
              IN  /\ page' = fr
                  /\ cache' = [valid |-> TRUE, frames |-> fr]
  /\ pc' = [pc EXCEPT ![s] = "idle"]
  /\ pend' = [pend EXCEPT ![s] = NoRow]
  /\ msg' = "success"
  /\ UNCHANGED <<authenticated, user_role>>

\* append_row_safe goes through: the row is appended, load_data.clear() drops
\* the cache, the handler reports success and st.rerun() loads the tables afresh.
AppendRow(s) ==
  /\ pc[s] = "append"
  /\ LET ws == [sheet EXCEPT ![pend[s].tab] =
                  Append(@, CleanRow(pend[s].tab, pend[s].row))]
     IN  /\ sheet' = ws
         /\ \E ok \in LoadOutcomes :
              LET fr == [t \in Tables |-> load_data(ws, t, ok[t])]
              IN  /\ page' = fr
                  /\ cache' = [valid |-> TRUE, frames |-> fr]
  /\ pc' = [pc EXCEPT ![s] = "idle"]
  /\ pend' = [pend EXCEPT ![s] = NoRow]
  /\ msg' = "success"
  /\ UNCHANGED <<authenticated, user_role>>

\* append_row raises: append_row_safe re-raises, the handler reports the failure
AppendFail(s) ==
  /\ pc[s] = "append"
  /\ pc' = [pc EXCEPT ![s] = "idle"]
  /\ pend' = [pend EXCEPT ![s] = NoRow]
  /\ msg' = "append_failed"
  /\ UNCHANGED <<sheet, cache, page, authenticated, user_role>>

\* "Save Expense" / "Save Income", the whole handler in one step
AddOther(s, t) ==
  /\ user_role[s] = "admin"
  /\ pc[s] = "idle"
  /\ HasRoom
  /\ \E amount \in Amounts, read_ok \in BOOLEAN, append_ok \in BOOLEAN :
       IF amount <= 0 \/ ~append_ok
       THEN /\ LoadAll
            /\ msg' = "error"
            /\ sheet' = sheet
       ELSE LET row == [id |-> get_next_id(IdColumn(sheet, t), read_ok), amount |-> amount]
                ws == [sheet EXCEPT ![t] = Append(@, CleanRow(t, row))]
            IN  /\ sheet' = ws
                /\ \E ok \in LoadOutcomes :
                     LET fr == [u \in Tables |-> load_data(ws, u, ok[u])]
                     IN  /\ page' = fr
                         /\ cache' = [valid |-> TRUE, frames |-> fr]
                /\ msg' = "success"
  /\ UNCHANGED <<authenticated, user_role, pc, pend>>

AddExpense(s) == AddOther(s, "expenses")
AddIncome(s) == AddOther(s, "income")

Next ==
  \/ \E s \in Sessions : Login(s)
  \/ \E s \in Sessions : Logout(s)
  \/ \E s \in Sessions : Refresh(s)
  \/ \E s \in Sessions : SubmitOrder(s)
  \/ \E s \in Sessions : SubmitTransaction(s)
  \/ \E s \in Sessions : Allocate(s)
  \/ \E s \in Sessions : AppendRow(s)
  \/ \E s \in Sessions : AppendFail(s)
  \/ \E s \in Sessions : AddExpense(s)
  \/ \E s \in Sessions : AddIncome(s)

\* One form handler at a time: a session acts only while no other session's
\* handler is between its submission and its append.
SeqOK(s) == \A o \in Sessions \ {s} : pc[o] = "idle"
NextSeq ==
  \/ \E s \in Sessions : SeqOK(s) /\ Login(s)
  \/ \E s \in Sessions : SeqOK(s) /\ Logout(s)
  \/ \E s \in Sessions : SeqOK(s) /\ Refresh(s)
  \/ \E s \in Sessions : SeqOK(s) /\ SubmitOrder(s)
  \/ \E s \in Sessions : SeqOK(s) /\ SubmitTransaction(s)
  \/ \E s \in Sessions : SeqOK(s) /\ Allocate(s)
  \/ \E s \in Sessions : SeqOK(s) /\ AppendRow(s)
  \/ \E s \in Sessions : SeqOK(s) /\ AppendFail(s)
  \/ \E s \in Sessions : SeqOK(s) /\ AddExpense(s)
  \/ \E s \in Sessions : SeqOK(s) /\ AddIncome(s)

Spec == Init /\ [][Next]_vars
SpecSeq == Init /\ [][NextSeq]_vars

(***************************************************************************)
(* The allocator on arbitrary identifier columns: the Orders worksheet     *)
(* holds any text in its first column (the spreadsheet can be edited by    *)
(* hand), and session s1 is about to allocate the id of a new order.       *)
(***************************************************************************)
CellChars == {"1", "7", "a", "sup2", " "}
Cells == UNION {[1..n -> CellChars] : n \in 0..MaxCellLen}
IdColumns == UNION {[1..n -> Cells] : n \in 0..MaxCol}

InitIds ==
  /\ \E col \in IdColumns :
       sheet = [t \in Tables |->
                 IF t = "orders"
                 THEN [i \in 1..Len(col) |->
                         [id |-> col[i], total |-> str(2), pay_status |-> "Unpaid",
                          order_status |-> "Pending"]]
                 ELSE <<>>]
  /\ cache = NoCache
  /\ page = EmptyFrames
  /\ authenticated = [s \in Sessions |-> s = "s1"]
  /\ user_role = [s \in Sessions |-> IF s = "s1" THEN "admin" ELSE "viewer"]
  /\ pc = [s \in Sessions |-> IF s = "s1" THEN "alloc" ELSE "idle"]
  /\ pend = [s \in Sessions |->
              IF s = "s1"
              THEN [tab |-> "orders",
                    row |-> [id |-> 0, total |-> 2, pay_status |-> "Unpaid",
                             order_status |-> "Pending"]]
              ELSE NoRow]
  /\ msg = "none"

NextIds == \E s \in Sessions : AllocateWith(s, TRUE)

SpecIds == InitIds /\ [][NextIds]_vars

-----------------------------------------------------------------------------
(* Properties                                                              *)

\* The frames a run reads from the worksheets when every read goes through.
Frames(ws) == [t \in Tables |-> load_data(ws, t, TRUE)]

RECURSIVE SumOver(_, _)
SumOver(S, f) ==
  IF S = {} THEN 0
  ELSE LET x == CHOOSE y \in S : TRUE IN f[x] + SumOver(S \ {x}, f)

\* Sum of amount_paid over the transactions recorded for order id oid.
PaidFor(transactions, oid) ==
  SumOver({j \in 1..Len(transactions) : transactions[j].oid = oid},
          [j \in 1..Len(transactions) |-> transactions[j].amount])
TotalOf(rows, col) == SumOver(1..Len(rows), [j \in 1..Len(rows) |-> rows[j][col]])

\* Outstanding balance of order row i: its total minus all payments for its id.
Outstanding(fr, i) == fr["orders"][i].total - PaidFor(fr["transactions"], fr["orders"][i].id)

PageReport == Receivables(page["orders"], page["transactions"])

AppendsTransaction == Len(sheet'["transactions"]) = Len(sheet["transactions"]) + 1
NewTransaction == ParseRow("transactions", sheet'["transactions"][Len(sheet'["transactions"])])

\* C2: the remaining snapshot stored with a new payment equals the order's
\* total_amount minus (all payments already recorded for the order plus the
\* new amount).
C2_SnapshotCountsAllRecorded ==
  [][AppendsTransaction =>
       \A i \in 1..Len(sheet["orders"]) :
         Frames(sheet)["orders"][i].id = NewTransaction.oid =>
           NewTransaction.remaining =
             Frames(sheet)["orders"][i].total
               - (PaidFor(Frames(sheet)["transactions"], NewTransaction.oid)
                    + NewTransaction.amount)]_vars

ReceivableRow(r) == [id |-> r.id, total |-> r.total, Unpaid |-> r.Unpaid]
ExpectedReceivables(fr) ==
  SelectSeq([i \in 1..Len(fr["orders"]) |->
               [id |-> fr["orders"][i].id, total |-> fr["orders"][i].total,
                Unpaid |-> Outstanding(fr, i)]],
            LAMBDA r : r.Unpaid > 0)

\* C3: the receivables list holds exactly one row for every order whose
\* outstanding balance is above zero, and no other row, also when no
\* transaction exists.
C3_ReceivablesListsPositiveBalances ==
  [k \in 1..Len(PageReport.receivables) |-> ReceivableRow(PageReport.receivables[k])]
    = ExpectedReceivables(page)

\* C4: Total Receivables is the sum of the outstanding balances of the rows
\* of the receivables list; over-paid orders do not reduce it.
C4_TotalIsSumOfListedRows ==
  PageReport.rec_total = TotalOf(PageReport.receivables, "Unpaid")

\* C5: with orders and no transaction at all, every order with a positive
\* total is listed with outstanding = total_amount, and Total Receivables is
\* the sum of the order totals.
C5_NoTransactionsAllOutstanding ==
  (Len(page["orders"]) > 0 /\ Len(sheet["transactions"]) = 0 /\ Len(page["transactions"]) = 0) =>
    /\ \A i \in 1..Len(page["orders"]) :
         page["orders"][i].total > 0 =>
           \E k \in 1..Len(PageReport.receivables) :
             /\ PageReport.receivables[k].id = page["orders"][i].id
             /\ PageReport.receivables[k].Unpaid = page["orders"][i].total
    /\ PageReport.rec_total = TotalOf(page["orders"], "total")

LiveReport(ws) == Receivables(Frames(ws)["orders"], Frames(ws)["transactions"])
NoneOverPaid(ws) == \A i \in 1..Len(ws["orders"]) : Outstanding(Frames(ws), i) >= 0

\* C6: recording a payment q against an order lowers that order's Unpaid
\* value by q and leaves the Unpaid value of orders with another id alone,
\* and lowers Total Receivables by q when no order is over-paid.
C6_PaymentLowersBalanceByAmount ==
  [][AppendsTransaction =>
       /\ (LiveReport(sheet).computed /\ LiveReport(sheet').computed) =>
            \A i \in 1..Len(sheet["orders"]) :
              LiveReport(sheet').orders_merged[i].Unpaid =
                LiveReport(sheet).orders_merged[i].Unpaid
                  - (IF LiveReport(sheet).orders_merged[i].id = NewTransaction.oid
                     THEN NewTransaction.amount ELSE 0)
       /\ NoneOverPaid(sheet') =>
            LiveReport(sheet').rec_total = LiveReport(sheet).rec_total - NewTransaction.amount]_vars

TransactionsOf(ws, oid) == {j \in 1..Len(ws["transactions"]) : ws["transactions"][j].oid = oid}

\* C7: with the handlers run one at a time, for every order with at least
\* one transaction the snapshot stored in its latest transaction equals the
\* order's outstanding balance.
C7_LatestSnapshotIsOutstanding ==
  \A i \in 1..Len(sheet["orders"]) :
    LET txs == TransactionsOf(sheet, sheet["orders"][i].id)
    IN  txs # {} =>
          Frames(sheet)["transactions"][Max(txs)].remaining = Outstanding(Frames(sheet), i)

\* The ids a column holds: the cells that parse as a non-negative integer.
ParsedIds(column) ==
  {int(column[i]) : i \in {j \in 1..Len(column) : ~int_raises(column[j])}} \cap Nat
ExpectedNextId(column) == IF ParsedIds(column) = {} THEN 1 ELSE Max(ParsedIds(column)) + 1

\* C8: get_next_id skips the cells that do not parse and returns the largest
\* parsed id plus one, or 1 when nothing parses.
C8_NextIdIsMaxPlusOne ==
  \A s \in Sessions :
    pc[s] = "append" => pend[s].row.id = ExpectedNextId(IdColumn(sheet, pend[s].tab))

\* C9: the identifiers stored in Orders, and those stored in Transactions,
\* are pairwise distinct.
C9_IdsUnique ==
  \A t \in {"orders", "transactions"} :
    \A i, j \in 1..Len(sheet[t]) : i # j => sheet[t][i].id # sheet[t][j].id

PageMetrics == DashboardMetrics(page)

C10_SummaryValues ==
  /\ PageMetrics.total_sales = TotalOf(page["orders"], "total")
  /\ PageMetrics.paid = TotalOf(page["transactions"], "amount")
  /\ PageMetrics.extra_income = TotalOf(page["income"], "amount")
  /\ PageMetrics.total_expenses = TotalOf(page["expenses"], "amount")
  /\ PageMetrics.net_balance =
       TotalOf(page["transactions"], "amount") + TotalOf(page["income"], "amount")
         - TotalOf(page["expenses"], "amount")
  /\ page = EmptyFrames =>
       PageMetrics = [total_sales |-> 0, paid |-> 0, extra_income |-> 0,
                      total_expenses |-> 0, net_balance |-> 0]

\* C10: the summary of a run is determined by its four frames: total_sales
\* sums total_amount over all orders (Cancelled ones too), paid sums
\* amount_paid over all transactions, net_balance = paid + other income -
\* expenses, all zero on empty tables; a run that only computes it changes no
\* worksheet.
C10_SummaryIsPureFunction ==
  /\ []C10_SummaryValues
  /\ [][(\E s \in Sessions : Refresh(s)) => sheet' = sheet]_vars

\* C10 witness: a summary over four non-empty tables with a Cancelled order.
C10_Witness ==
  /\ \A t \in Tables : Len(page[t]) > 0
  /\ \E i \in 1..Len(page["orders"]) : page["orders"][i].order_status = "Cancelled"
  /\ PageMetrics = [total_sales |-> 4, paid |-> 2, extra_income |-> 2,
                    total_expenses |-> 2, net_balance |-> 2]

NoneCancelled(fr) ==
  \A i \in 1..Len(fr["orders"]) : fr["orders"][i].order_status # "Cancelled"
NonePaidAboveTotal(fr) ==
  \A i \in 1..Len(fr["orders"]) :
    PaidFor(fr["transactions"], fr["orders"][i].id) <= fr["orders"][i].total

\* C11: in every run whose frames hold no Cancelled order and no over-paid
\* order, Total Receivables equals pending_amount = total_sales - paid, the
\* sums of the Reports tab over all orders and all transactions.
C11_ReceivablesEqualPending ==
  (NoneCancelled(page) /\ NonePaidAboveTotal(page)) =>
    PageReport.rec_total = PageMetrics.total_sales - PageMetrics.paid

\* Order row i is the only Orders row with its id.
OnlyRowOfItsId(ws, i) ==
  \A h \in 1..Len(ws["orders"]) : h # i => ws["orders"][h].id # ws["orders"][i].id
\* The latest two transactions stored for order row i, when it has two.
LatestOf(ws, i) == Max(TransactionsOf(ws, ws["orders"][i].id))
SecondLatestOf(ws, i) == Max(TransactionsOf(ws, ws["orders"][i].id) \ {LatestOf(ws, i)})
\* Both were computed from the same prior payments: paid_so_far, which is
\* total - (remaining + amount), is the same in both rows.
SamePriorView(ws, i) ==
  /\ Cardinality(TransactionsOf(ws, ws["orders"][i].id)) >= 2
  /\ LET tx == Frames(ws)["transactions"]
         j == SecondLatestOf(ws, i)
         k == LatestOf(ws, i)
     IN  tx[j].remaining + tx[j].amount = tx[k].remaining + tx[k].amount

\* C12: when the latest two transactions of an order were both computed from
\* the same prior Transactions view, the most recently appended snapshot is
\* above the order's live outstanding balance (it ignores the other
\* payment), while the live balance a fresh run computes is still
\* total_amount minus the sum of all payments, both included.
C12_RacedSnapshotsIgnoreEachOther ==
  \A i \in 1..Len(sheet["orders"]) :
    (OnlyRowOfItsId(sheet, i) /\ SamePriorView(sheet, i)) =>
      LET tx == Frames(sheet)["transactions"]
          j == SecondLatestOf(sheet, i)
          k == LatestOf(sheet, i)
      IN  /\ LiveReport(sheet).computed
          /\ LiveReport(sheet).orders_merged[i].Unpaid = Outstanding(Frames(sheet), i)
          /\ tx[k].remaining > Outstanding(Frames(sheet), i)
          /\ tx[k].remaining >= Outstanding(Frames(sheet), i) + tx[j].amount

\* C12 witness: two sessions recorded a payment of 2 each against the same
\* order, both rows are stored, each snapshot is total - 2 and the live
\* outstanding balance is total - 4.
C12_Witness ==
  /\ \A s \in Sessions : pc[s] = "idle"
  /\ \E i \in 1..Len(sheet["orders"]) :
       /\ OnlyRowOfItsId(sheet, i)
       /\ Cardinality(TransactionsOf(sheet, sheet["orders"][i].id)) = 2
       /\ LET tx == Frames(sheet)["transactions"]
              j == SecondLatestOf(sheet, i)
              k == LatestOf(sheet, i)
              total == Frames(sheet)["orders"][i].total
          IN  /\ tx[j].amount = 2 /\ tx[k].amount = 2
              /\ tx[j].remaining = total - 2
              /\ tx[k].remaining = total - 2
              /\ Outstanding(Frames(sheet), i) = total - 4
              /\ LiveReport(sheet).orders_merged[i].Unpaid = total - 4

\* Session s is inside the Save Transaction handler.
RecordingPayment(s) == pc[s] # "idle" /\ pend[s].tab = "transactions"
\* The step appends row to Transactions and leaves every stored row alone.
OnlyAppendsTransaction(row) ==
  /\ sheet'["transactions"] = Append(sheet["transactions"], row)
  /\ \A t \in Tables \ {"transactions"} : sheet'[t] = sheet[t]

\* C13: recording a payment appends exactly one row to Transactions and
\* changes no stored row: the earlier Transactions rows keep their values,
\* snapshot included, and the Orders rows keep total_amount and
\* payment_status; the steps of the handler before the append, and a failed
\* append, change no worksheet.
C13_PaymentOnlyAppendsOneRow ==
  [][/\ \A s \in Sessions :
          /\ (RecordingPayment(s) /\ AppendRow(s)) =>
               OnlyAppendsTransaction(CleanRow("transactions", pend[s].row))
          /\ (SubmitTransaction(s) \/ (RecordingPayment(s) /\ (Allocate(s) \/ AppendFail(s)))) =>
               sheet' = sheet
     /\ sheet'["transactions"] # sheet["transactions"] =>
          /\ Len(sheet'["transactions"]) = Len(sheet["transactions"]) + 1
          /\ SubSeq(sheet'["transactions"], 1, Len(sheet["transactions"])) = sheet["transactions"]
          /\ \A t \in Tables \ {"transactions"} : sheet'[t] = sheet[t]]_vars

\* C13 witness: an order entered as Unpaid with total 2 has been paid twice,
\* one payment after the other; the first snapshot still reads 0, the second
\* reads -2, and the order still says Unpaid.
C13_Witness ==
  /\ msg = "success"
  /\ Len(sheet["orders"]) = 1
  /\ Frames(sheet)["orders"][1].total = 2
  /\ sheet["orders"][1].pay_status = "Unpaid"
  /\ Len(sheet["transactions"]) = 2
  /\ \A j \in 1..2 : sheet["transactions"][j].oid = sheet["orders"][1].id
  /\ Frames(sheet)["transactions"][1].remaining = 0
  /\ Frames(sheet)["transactions"][2].remaining = 0 - 2

\* The id the next row of table t would get.
NextIdOf(ws, t) == get_next_id(IdColumn(ws, t), TRUE)
NothingStored == sheet' = sheet /\ \A t \in Tables : NextIdOf(sheet', t) = NextIdOf(sheet, t)
StoredAmountsPositive ==
  \A j \in 1..Len(sheet["transactions"]) : Frames(sheet)["transactions"][j].amount > 0

\* C14: every stored Transactions row has amount_paid above zero; a Save
\* Transaction submission either is rejected with the invalid-amount error,
\* storing nothing and leaving the tables and the next ids as they were, or
\* goes on with an amount above zero; a failed append is reported as a
\* failure, never as a success, and stores nothing.
C14_OnlyPositiveAmountsRecorded ==
  /\ []StoredAmountsPositive
  /\ [][\A s \in Sessions :
          /\ SubmitTransaction(s) =>
               \/ /\ msg' = "invalid_amount"
                  /\ pc' = pc /\ pend' = pend
                  /\ NothingStored
               \/ /\ msg' = "none"
                  /\ pc'[s] = "alloc"
                  /\ pend'[s].row.amount > 0
                  /\ NothingStored
          /\ (RecordingPayment(s) /\ AppendFail(s)) =>
               msg' = "append_failed" /\ NothingStored
          /\ (pc[s] = "append" /\ pc'[s] = "idle" /\ sheet' = sheet) =>
               msg' \notin {"success", "none"}]_vars

\* C14 witness: after one payment was recorded, a submission with amount 0
\* has just been rejected: the error is shown, no handler is pending and
\* Transactions still holds the one row.
C14_Witness ==
  /\ msg = "invalid_amount"
  /\ \A s \in Sessions : pc[s] = "idle"
  /\ Len(sheet["transactions"]) = 1
  /\ Frames(sheet)["transactions"][1].amount = 2
  /\ NextIdOf(sheet, "transactions") = 2

FlagsAgree ==
  \A s \in Sessions :
    /\ user_role[s] = "admin" <=> authenticated[s]
    /\ user_role[s] \in {"admin", "viewer"}
    /\ pc[s] # "idle" => authenticated[s]

\* C15: in every session user_role is admin exactly when authenticated is
\* True: a successful login sets both, Logout resets both, a wrong passcode
\* changes neither; and a step that appends a row to a worksheet is taken by
\* a session whose authenticated flag is True.
C15_RoleFollowsLogin ==
  /\ []FlagsAgree
  /\ [][\A s \in Sessions :
          /\ Login(s) =>
               \/ authenticated'[s] /\ user_role'[s] = "admin" /\ msg' = "none"
               \/ /\ msg' = "error"
                  /\ authenticated' = authenticated /\ user_role' = user_role
          /\ Logout(s) => ~authenticated'[s] /\ user_role'[s] = "viewer"
          /\ (authenticated'[s] # authenticated[s] \/ user_role'[s] # user_role[s]) =>
               Login(s) \/ Logout(s)
          /\ ((AppendRow(s) \/ AddExpense(s) \/ AddIncome(s)) /\ sheet' # sheet) =>
               authenticated[s] /\ user_role[s] = "admin"
          /\ ~authenticated[s] =>
               ~(SubmitOrder(s) \/ SubmitTransaction(s) \/ Allocate(s) \/ AppendRow(s)
                   \/ AppendFail(s) \/ AddExpense(s) \/ AddIncome(s) \/ Refresh(s))]_vars

\* C15 witness: rows were stored, every session has logged out again (viewer,
\* not authenticated), and a wrong passcode has just been turned down.
C15_Witness ==
  /\ \A s \in Sessions : ~authenticated[s] /\ user_role[s] = "viewer"
  /\ Len(sheet["orders"]) > 0
  /\ Len(sheet["transactions"]) > 0
  /\ msg = "error"
====
